---- MODULE Spec2Model ----
(***************************************************************************)
(* Model of src/objects.py: a symbolic-algebra expression tree (Var, Num,  *)
(* Add, Sub, Mul, Div) with evaluate, deriv, simplify, __str__, __eq__,    *)
(* and the tokenize / parse front end behind make_expression.              *)
(*                                                                         *)
(* Conventions of the model                                                *)
(*  - a Python str is a sequence of one-character strings;                 *)
(*  - a Python number is an exact rational num/den (den > 0, lowest terms) *)
(*    with a flag fl telling a float from an int; value comparison (==)    *)
(*    ignores the flag, str() does not; float arithmetic is exact, so      *)
(*    there is no rounding and no negative zero, and str() of a float      *)
(*    stops after 16 fraction digits;                                      *)
(*  - an expression is a record [tag, name, n, kids]: tag is the class     *)
(*    ("Var", "Num") or the BinOp's Op ("Add", "Sub", "Mul", "Div");       *)
(*  - a call that can raise returns a record whose err field is the name   *)
(*    of the exception class, "" when it returned normally.                *)
(***************************************************************************)
EXTENDS Integers, Sequences, FiniteSets, TLC

VARIABLES pc, src, tokens, origin, expr, other, mapping, variable, result

vars == <<pc, src, tokens, origin, expr, other, mapping, variable, result>>

\* ------------------------------------------------------------------ bounds
\* largest number of BinOp nodes of an expression built by the constructors
MaxOps == 2
\* largest total number of BinOp nodes of a pair of expressions compared
MaxPairOps == 1
\* largest length of an arbitrary input string
MaxLen == 5

\* ----------------------------------------------------------------- numbers
Abs(i) == IF i < 0 THEN -i ELSE i

RECURSIVE Gcd(_, _)
Gcd(a, b) == IF b = 0 THEN a ELSE Gcd(b, a % b)

\* the rational p/q (q /= 0) in lowest terms, as a float when fl
Rat(p, q, fl) ==
    LET g == Gcd(Abs(p), Abs(q))
        s == IF q < 0 THEN -1 ELSE 1
    IN  [num |-> (s * p) \div g, den |-> (s * q) \div g, fl |-> fl]

IntN(i) == [num |-> i, den |-> 1, fl |-> FALSE]
FltN(p, q) == Rat(p, q, TRUE)

\* Python's == on two numbers: by value, an int equals the float of its value
NumEq(a, b) == a.num = b.num /\ a.den = b.den

NoNum == IntN(0)

\* ------------------------------------------------------------- expressions
OpTags == {"Add", "Sub", "Mul", "Div"}

Var(name) == [tag |-> "Var", name |-> name, n |-> NoNum, kids |-> <<>>]

Num(n) == [tag |-> "Num", name |-> "", n |-> n, kids |-> <<>>]

\* BinOp.__init__ with both operands already expressions (the str / number
\* coercions of lines 109-116 apply to raw operands only)
BinOp(left, right, Op) == [tag |-> Op, name |-> "", n |-> NoNum, kids |-> <<left, right>>]

Add(left, right) == BinOp(left, right, "Add")
Sub(left, right) == BinOp(left, right, "Sub")
Mul(left, right) == BinOp(left, right, "Mul")
Div(left, right) == BinOp(left, right, "Div")

Left(e) == e.kids[1]
Right(e) == e.kids[2]
IsBinOp(e) == e.tag \in OpTags

NoTree == [tag |-> "None", name |-> "", n |-> NoNum, kids |-> <<>>]

\* Expr.__add__, __sub__, __mul__, __truediv__ on two expressions
ExprOp(Op, left, right) ==
    CASE Op = "Add" -> Add(left, right)
      [] Op = "Sub" -> Sub(left, right)
      [] Op = "Mul" -> Mul(left, right)
      [] OTHER -> Div(left, right)

\* BinOp.eval_Op on two numbers; / is true division and raises on a zero divisor
eval_Op(Op, l, r) ==
    LET f == l.fl \/ r.fl IN
    CASE Op = "Add" -> [err |-> "", num |-> Rat(l.num * r.den + r.num * l.den, l.den * r.den, f)]
      [] Op = "Sub" -> [err |-> "", num |-> Rat(l.num * r.den - r.num * l.den, l.den * r.den, f)]
      [] Op = "Mul" -> [err |-> "", num |-> Rat(l.num * r.num, l.den * r.den, f)]
      [] OTHER -> IF r.num = 0
                  THEN [err |-> "ZeroDivisionError", num |-> NoNum]
                  ELSE [err |-> "", num |-> Rat(l.num * r.den, l.den * r.num, TRUE)]

\* ---------------------------------------------------------------- evaluate
RECURSIVE evaluate(_, _)

\* Var.evaluate with a default for a missing name, as mapping.get(name, 0)
Var_evaluate_default(self, m) ==
    IF self.name \in DOMAIN m
    THEN [err |-> "", num |-> m[self.name]]
    ELSE [err |-> "", num |-> IntN(0)]

Var_evaluate(self, m) ==
    IF self.name \in DOMAIN m
    THEN [err |-> "", num |-> m[self.name]]
    ELSE [err |-> "SymbolicEvaluationError", num |-> NoNum]

Num_evaluate(self, m) == [err |-> "", num |-> self.n]

\* left first, then right, then the operator; the first exception raised
\* is the one that propagates
BinOp_evaluate(self, m) ==
    LET left_eval == evaluate(Left(self), m) IN
    IF left_eval.err /= "" THEN left_eval
    ELSE LET right_eval == evaluate(Right(self), m) IN
         IF right_eval.err /= "" THEN right_eval
         ELSE eval_Op(self.tag, left_eval.num, right_eval.num)

\* e.evaluate(m), dispatched on the class of e
evaluate(e, m) ==
    IF e.tag = "Var" THEN Var_evaluate(e, m)
    ELSE IF e.tag = "Num" THEN Num_evaluate(e, m)
    ELSE BinOp_evaluate(e, m)

\* ------------------------------------------------------------------- deriv
RECURSIVE deriv(_, _)

Var_deriv(self, v) == IF v = self.name THEN Num(IntN(1)) ELSE Num(IntN(0))

Num_deriv(self, v) == Num(IntN(0))

Add_deriv(self, v) == ExprOp("Add", deriv(Left(self), v), deriv(Right(self), v))

Sub_deriv(self, v) == ExprOp("Sub", deriv(Left(self), v), deriv(Right(self), v))

\* Mul.deriv pairing each operand with its own derivative
Mul_deriv_own(self, v) ==
    ExprOp("Add", ExprOp("Mul", Left(self), deriv(Left(self), v)),
                  ExprOp("Mul", Right(self), deriv(Right(self), v)))

Mul_deriv(self, v) ==
    ExprOp("Add", ExprOp("Mul", Left(self), deriv(Right(self), v)),
                  ExprOp("Mul", Right(self), deriv(Left(self), v)))

Div_deriv(self, v) ==
    LET numerator == ExprOp("Sub", ExprOp("Mul", Right(self), deriv(Left(self), v)),
                                   ExprOp("Mul", Left(self), deriv(Right(self), v)))
        denominator == ExprOp("Mul", Right(self), Right(self))
    IN  ExprOp("Div", numerator, denominator)

\* e.deriv(v), dispatched on the class of e
deriv(e, v) ==
    CASE e.tag = "Var" -> Var_deriv(e, v)
      [] e.tag = "Num" -> Num_deriv(e, v)
      [] e.tag = "Add" -> Add_deriv(e, v)
      [] e.tag = "Sub" -> Sub_deriv(e, v)
      [] e.tag = "Mul" -> Mul_deriv(e, v)
      [] OTHER -> Div_deriv(e, v)

\* ------------------------------------------------------------------ __eq__
\* "True", "False", or "AttributeError" when a field the other operand's
\* class does not have is read.  Python's and / or short-circuit left to right.
And3(a, b) == IF a = "True" THEN b ELSE a
Or3(a, b) == IF a = "False" THEN b ELSE a
Bool3(b) == IF b THEN "True" ELSE "False"

RECURSIVE Eq(_, _)

\* self.name == other.name
Var_eq(self, o) ==
    IF o.tag = "Var" THEN Bool3(self.name = o.name) ELSE "AttributeError"

\* self.n == other.n
Num_eq(self, o) ==
    IF o.tag = "Num" THEN Bool3(NumEq(self.n, o.n)) ELSE "AttributeError"

BinOp_eq(self, o) ==
    IF ~IsBinOp(o) THEN "AttributeError"
    ELSE IF self.tag /= o.tag THEN "False"
    ELSE IF self.tag \in {"Add", "Mul"} THEN
        Or3(And3(Eq(Left(self), Left(o)), Eq(Right(self), Right(o))),
            And3(Eq(Left(self), Right(o)), Eq(Right(self), Left(o))))
    ELSE And3(Eq(Left(self), Left(o)), Eq(Right(self), Right(o)))

\* self == o, dispatched on the class of self
Eq(self, o) ==
    IF self.tag = "Var" THEN Var_eq(self, o)
    ELSE IF self.tag = "Num" THEN Num_eq(self, o)
    ELSE BinOp_eq(self, o)

\* ---------------------------------------------------------------- simplify
\* a ZeroDivisionError of constant folding propagates to the caller
Ok(t) == [err |-> "", tree |-> t]
Raise(x) == [err |-> x, tree |-> NoTree]

RECURSIVE simplify(_)

\* Num(self.eval_Op(ls.n, rs.n))
Fold(Op, ls, rs) ==
    LET v == eval_Op(Op, ls.n, rs.n)
    IN  IF v.err /= "" THEN Raise(v.err) ELSE Ok(Num(v.num))

\* Add.simplify whose rule x + 0 -> x returns the operand l as it was given
Add_simplify_raw_left(self) ==
    LET sl == simplify(Left(self)) IN
    IF sl.err /= "" THEN sl ELSE
    LET sr == simplify(Right(self)) IN
    IF sr.err /= "" THEN sr ELSE
    LET ls == sl.tree
        rs == sr.tree
    IN  IF ls.tag = "Num" /\ rs.tag = "Num" THEN Fold("Add", ls, rs)
        ELSE IF ls.tag = "Num" /\ Eq(ls, Num(IntN(0))) = "True" THEN Ok(rs)
        ELSE IF rs.tag = "Num" /\ Eq(rs, Num(IntN(0))) = "True" THEN Ok(Left(self))
        ELSE Ok(ExprOp("Add", ls, rs))

Add_simplify(self) ==
    LET sl == simplify(Left(self)) IN
    IF sl.err /= "" THEN sl ELSE
    LET sr == simplify(Right(self)) IN
    IF sr.err /= "" THEN sr ELSE
    LET ls == sl.tree
        rs == sr.tree
    IN  IF ls.tag = "Num" /\ rs.tag = "Num" THEN Fold("Add", ls, rs)
        ELSE IF ls.tag = "Num" /\ Eq(ls, Num(IntN(0))) = "True" THEN Ok(rs)
        ELSE IF rs.tag = "Num" /\ Eq(rs, Num(IntN(0))) = "True" THEN Ok(ls)
        ELSE Ok(ExprOp("Add", ls, rs))

\* Sub.simplify with the rule 0 - x -> x copied from Add.simplify
Sub_simplify_zero_left(self) ==
    LET sl == simplify(Left(self)) IN
    IF sl.err /= "" THEN sl ELSE
    LET sr == simplify(Right(self)) IN
    IF sr.err /= "" THEN sr ELSE
    LET ls == sl.tree
        rs == sr.tree
    IN  IF ls.tag = "Num" /\ rs.tag = "Num" THEN Fold("Sub", ls, rs)
        ELSE IF ls.tag = "Num" /\ Eq(ls, Num(IntN(0))) = "True" THEN Ok(rs)
        ELSE IF rs.tag = "Num" /\ Eq(rs, Num(IntN(0))) = "True" THEN Ok(ls)
        ELSE Ok(ExprOp("Sub", ls, rs))

Sub_simplify(self) ==
    LET sl == simplify(Left(self)) IN
    IF sl.err /= "" THEN sl ELSE
    LET sr == simplify(Right(self)) IN
    IF sr.err /= "" THEN sr ELSE
    LET ls == sl.tree
        rs == sr.tree
    IN  IF ls.tag = "Num" /\ rs.tag = "Num" THEN Fold("Sub", ls, rs)
        ELSE IF rs.tag = "Num" /\ Eq(rs, Num(IntN(0))) = "True" THEN Ok(ls)
        ELSE Ok(ExprOp("Sub", ls, rs))

Mul_simplify(self) ==
    LET sl == simplify(Left(self)) IN
    IF sl.err /= "" THEN sl ELSE
    LET sr == simplify(Right(self)) IN
    IF sr.err /= "" THEN sr ELSE
    LET ls == sl.tree
        rs == sr.tree
    IN  IF ls.tag = "Num" /\ rs.tag = "Num" THEN Fold("Mul", ls, rs)
        ELSE IF ls.tag = "Num" /\ Eq(ls, Num(IntN(0))) = "True" THEN Ok(Num(IntN(0)))
        ELSE IF ls.tag = "Num" /\ Eq(ls, Num(IntN(1))) = "True" THEN Ok(rs)
        ELSE IF rs.tag = "Num" /\ Eq(rs, Num(IntN(0))) = "True" THEN Ok(Num(IntN(0)))
        ELSE IF rs.tag = "Num" /\ Eq(rs, Num(IntN(1))) = "True" THEN Ok(ls)
        ELSE Ok(ExprOp("Mul", ls, rs))

Div_simplify(self) ==
    LET sl == simplify(Left(self)) IN
    IF sl.err /= "" THEN sl ELSE
    LET sr == simplify(Right(self)) IN
    IF sr.err /= "" THEN sr ELSE
    LET ls == sl.tree
        rs == sr.tree
    IN  IF ls.tag = "Num" /\ rs.tag = "Num" THEN Fold("Div", ls, rs)
        ELSE IF ls.tag = "Num" /\ Eq(ls, Num(IntN(0))) = "True" THEN Ok(Num(IntN(0)))
        ELSE IF rs.tag = "Num" /\ Eq(rs, Num(IntN(1))) = "True" THEN Ok(ls)
        ELSE Ok(ExprOp("Div", ls, rs))

\* e.simplify(), dispatched on the class of e; Var and Num return self
simplify(e) ==
    CASE e.tag = "Add" -> Add_simplify(e)
      [] e.tag = "Sub" -> Sub_simplify(e)
      [] e.tag = "Mul" -> Mul_simplify(e)
      [] e.tag = "Div" -> Div_simplify(e)
      [] OTHER -> Ok(e)

\* ----------------------------------------------------------------- __str__
Digits == <<"0", "1", "2", "3", "4", "5", "6", "7", "8", "9">>
DigitChars == {Digits[i] : i \in 1..10}
DigitVal(c) == (CHOOSE i \in 1..10 : Digits[i] = c) - 1

\* decimal digits of a natural number
RECURSIVE NatStr(_)
NatStr(k) == IF k < 10 THEN <<Digits[k + 1]>> ELSE NatStr(k \div 10) \o <<Digits[(k % 10) + 1]>>

\* digits of the fraction r/den (0 <= r < den), at most left of them
RECURSIVE FracStr(_, _, _)
FracStr(r, den, left) ==
    IF r = 0 \/ left = 0 THEN <<>>
    ELSE <<Digits[((r * 10) \div den) + 1]>> \o FracStr((r * 10) % den, den, left - 1)

\* str(n) of a Python number: an int prints its digits, a float always
\* prints a decimal point and at least one fraction digit
NumStr(n) ==
    LET a == Abs(n.num)
        sign == IF n.num < 0 THEN <<"-">> ELSE <<>>
        whole == NatStr(a \div n.den)
        frac == FracStr(a % n.den, n.den, 16)
    IN  IF ~n.fl THEN sign \o whole
        ELSE sign \o whole \o <<".">> \o (IF frac = <<>> THEN <<"0">> ELSE frac)

\* Expr.precedence / BinOp.precedence
precedence(e) ==
    IF ~IsBinOp(e) THEN 10
    ELSE IF e.tag \in {"Sub", "Add"} THEN 1
    ELSE IF e.tag \in {"Mul", "Div"} THEN 2
    ELSE 0

op_syms(Op) ==
    CASE Op = "Add" -> "+" [] Op = "Sub" -> "-" [] Op = "Mul" -> "*" [] OTHER -> "/"

Paren(s) == <<"(">> \o s \o <<")">>

RECURSIVE Str(_)

\* BinOp.__str__ without the rule for the right operand of Sub and Div
BinOp_str_no_right_rule(self) ==
    LET sym == <<" ", op_syms(self.tag), " ">>
        self_p == precedence(self)
        left_p == precedence(Left(self))
        right_p == precedence(Right(self))
        left_str == IF left_p < self_p THEN Paren(Str(Left(self))) ELSE Str(Left(self))
        right_str == IF right_p < self_p THEN Paren(Str(Right(self))) ELSE Str(Right(self))
    IN  left_str \o sym \o right_str

BinOp_str(self) ==
    LET sym == <<" ", op_syms(self.tag), " ">>
        self_p == precedence(self)
        left_p == precedence(Left(self))
        right_p == precedence(Right(self))
        left_str == IF left_p < self_p THEN Paren(Str(Left(self))) ELSE Str(Left(self))
        right_str == IF right_p < self_p \/ (self.tag \in {"Sub", "Div"} /\ right_p = self_p)
                     THEN Paren(Str(Right(self)))
                     ELSE Str(Right(self))
    IN  left_str \o sym \o right_str

\* str(e), dispatched on the class of e
Str(e) ==
    IF e.tag = "Var" THEN <<e.name>>
    ELSE IF e.tag = "Num" THEN NumStr(e.n)
    ELSE BinOp_str(e)

\* ---------------------------------------------------------------- tokenize
special_ops == {"+", "-", "*", "/", "(", ")"}
num_chars == DigitChars \cup {"."}

\* the loop body of tokenize losing the pending number when a letter follows
TokenizeChar_no_flush(st, char) ==
    LET flushed == IF st.curr_char /= <<>>
                   THEN Append(st.out_tokens, st.curr_char)
                   ELSE st.out_tokens
    IN  IF char = " " THEN st
        ELSE IF char \in num_chars THEN
            [st EXCEPT !.curr_char = @ \o <<char>>, !.prev_token = char]
        ELSE IF char \in special_ops THEN
            IF char = "-" /\ st.prev_token \in {"None", "(", "+", "-", "*", "/"}
            THEN [st EXCEPT !.curr_char = @ \o <<char>>, !.prev_token = char]
            ELSE [out_tokens |-> Append(flushed, <<char>>), curr_char |-> <<>>,
                  prev_token |-> char]
        ELSE [out_tokens |-> Append(st.out_tokens, <<char>>), curr_char |-> <<>>,
              prev_token |-> char]

\* one iteration of the for loop of tokenize on the character char;
\* st = [out_tokens, curr_char, prev_token], prev_token "None" before the
\* first character that is not a space
TokenizeChar(st, char) ==
    LET flushed == IF st.curr_char /= <<>>
                   THEN Append(st.out_tokens, st.curr_char)
                   ELSE st.out_tokens
    IN  IF char = " " THEN st
        ELSE IF char \in num_chars THEN
            [st EXCEPT !.curr_char = @ \o <<char>>, !.prev_token = char]
        ELSE IF char \in special_ops THEN
            IF char = "-" /\ st.prev_token \in {"None", "(", "+", "-", "*", "/"}
            THEN [st EXCEPT !.curr_char = @ \o <<char>>, !.prev_token = char]
            ELSE [out_tokens |-> Append(flushed, <<char>>), curr_char |-> <<>>,
                  prev_token |-> char]
        ELSE [out_tokens |-> Append(flushed, <<char>>), curr_char |-> <<>>,
              prev_token |-> char]

RECURSIVE TokenizeLoop(_, _, _)
TokenizeLoop(expression, i, st) ==
    IF i > Len(expression) THEN st
    ELSE TokenizeLoop(expression, i + 1, TokenizeChar(st, expression[i]))

tokenize(expression) ==
    LET st == TokenizeLoop(expression, 1,
                  [out_tokens |-> <<>>, curr_char |-> <<>>, prev_token |-> "None"])
    IN  IF st.curr_char /= <<>> THEN Append(st.out_tokens, st.curr_char) ELSE st.out_tokens

\* ------------------------------------------------------------------- parse
\* the letters of the model's alphabet
Letters == {"x", "y"}

\* str.isalpha on a token
isalpha(token) == token /= <<>> /\ \A i \in 1..Len(token) : token[i] \in Letters

RECURSIVE Pow10(_)
Pow10(k) == IF k = 0 THEN 1 ELSE 10 * Pow10(k - 1)

RECURSIVE DigitsVal(_)
DigitsVal(ds) == IF ds = <<>> THEN 0 ELSE 10 * DigitsVal(SubSeq(ds, 1, Len(ds) - 1)) + DigitVal(ds[Len(ds)])

\* float(token) on a token made of digits, ".", "+" and "-": an optional
\* sign, then digits with at most one ".", at least one digit; anything
\* else raises ValueError
float(token) ==
    LET signed == token /= <<>> /\ token[1] \in {"-", "+"}
        body == IF signed THEN Tail(token) ELSE token
        dots == {i \in 1..Len(body) : body[i] = "."}
        ds == SelectSeq(body, LAMBDA c : c /= ".")
        valid == /\ \A i \in 1..Len(body) : body[i] \in num_chars
                 /\ Cardinality(dots) <= 1
                 /\ ds /= <<>>
        fracLen == IF dots = {} THEN 0 ELSE Len(body) - (CHOOSE i \in dots : TRUE)
        mag == DigitsVal(ds)
    IN  IF ~valid THEN [err |-> "ValueError", num |-> NoNum]
        ELSE [err |-> "",
              num |-> FltN(IF signed /\ token[1] = "-" THEN -mag ELSE mag, Pow10(fracLen))]

operators(Op) ==
    CASE Op = <<"+">> -> "Add" [] Op = <<"-">> -> "Sub"
      [] Op = <<"*">> -> "Mul" [] Op = <<"/">> -> "Div" [] OTHER -> "KeyError"

PRaise(x) == [err |-> x, tree |-> NoTree, index |-> 0]

\* parse.recursive_parse; index counts from 0 as in the source, and reading
\* tokens[index] past the end raises IndexError.  The identity test
\* `tokens[index] is not end` is modelled as inequality: the tokens "(" and
\* ")" are one-character strings, of which CPython keeps a single object each.
RECURSIVE recursive_parse(_, _)
recursive_parse(toks, index) ==
    IF index >= Len(toks) THEN PRaise("IndexError")
    ELSE LET token == toks[index + 1] IN
    IF token = <<"(">> THEN
        LET l == recursive_parse(toks, index + 1) IN
        IF l.err /= "" THEN l
        ELSE IF l.index >= Len(toks) THEN PRaise("IndexError")
        ELSE LET Op == toks[l.index + 1]
                 r == recursive_parse(toks, l.index + 1)
             IN  IF r.err /= "" THEN r
                 ELSE IF r.index >= Len(toks) THEN PRaise("IndexError")
                 ELSE IF toks[r.index + 1] /= <<")">> THEN PRaise("ValueError")
                 ELSE IF operators(Op) = "KeyError" THEN PRaise("KeyError")
                 ELSE [err |-> "", tree |-> BinOp(l.tree, r.tree, operators(Op)),
                       index |-> r.index + 1]
    ELSE IF isalpha(token) THEN
        [err |-> "", tree |-> Var(token[1]), index |-> index + 1]
    ELSE LET f == float(token) IN
         IF f.err /= "" THEN PRaise(f.err)
         ELSE [err |-> "", tree |-> Num(f.num), index |-> index + 1]

\* parse rejecting tokens left after the outermost expression
parse_whole(toks) ==
    LET p == recursive_parse(toks, 0)
    IN  IF p.err = "" /\ p.index /= Len(toks)
        THEN [err |-> "ValueError", tree |-> NoTree]
        ELSE [err |-> p.err, tree |-> p.tree]

parse(toks) ==
    LET p == recursive_parse(toks, 0)
    IN  [err |-> p.err, tree |-> p.tree]

\* ------------------------------------------------------------------ inputs
Names == {"x", "y"}

\* the shapes of the expressions with k BinOp nodes: <<>> is a leaf, <<l, r>>
\* a BinOp over the shapes l and r
Shapes(maxk) ==
    LET S[k \in 0..maxk] ==
            IF k = 0 THEN {<<>>}
            ELSE UNION {{<<l, r>> : l \in S[i], r \in S[k - 1 - i]} : i \in 0..(k - 1)}
    IN  S

RECURSIVE Size(_)
Size(shape) == IF shape = <<>> THEN 0 ELSE 1 + Size(shape[1]) + Size(shape[2])

\* the expression of the given shape whose BinOp nodes take their Op from
\* ops and whose leaves are lv, both read left to right
RECURSIVE Build(_, _, _, _, _)
Build(shape, ops, lv, opOff, leafOff) ==
    IF shape = <<>> THEN lv[leafOff + 1]
    ELSE BinOp(Build(shape[1], ops, lv, opOff + 1, leafOff),
               Build(shape[2], ops, lv, opOff + 1 + Size(shape[1]),
                     leafOff + 1 + Size(shape[1])),
               ops[opOff + 1])

\* e is an expression with k BinOp nodes over the given leaves
IsTree(e, leaves, k) ==
    \E shape \in Shapes(k)[k] : \E ops \in [1..k -> OpTags] : \E lv \in [1..(k + 1) -> leaves] :
        e = Build(shape, ops, lv, 0, 0)

\* expressions built with the constructors: int leaves 0 and 1, two variables
Leaves == {Var("x"), Var("y"), Num(IntN(0)), Num(IntN(1))}

\* bindings of some of the names to 0 or 2
Bindings == UNION {[D -> {IntN(0), IntN(2)}] : D \in SUBSET Names}
NoBinding == [nm \in {} |-> NoNum]

\* arbitrary strings of at most MaxLen characters
Alphabet == {"1", ".", "x", "-", "+", "(", ")", " "}
Strings == UNION {[1..k -> Alphabet] : k \in 0..MaxLen}

\* fully parenthesized source text of an expression, as test_make_expression
\* writes it: "(" left " " OP " " right ")"
RECURSIVE Render(_)
Render(e) ==
    IF e.tag = "Var" THEN <<e.name>>
    ELSE IF e.tag = "Num" THEN NumStr(e.n)
    ELSE <<"(">> \o Render(Left(e)) \o <<" ", op_syms(e.tag), " ">> \o Render(Right(e)) \o <<")">>

\* expressions whose source text is parsed: float literals and a variable
SourceLeaves == {Var("x"), Num(FltN(2, 1)), Num(FltN(-1, 2))}
\* what follows the outermost expression in the source text
Trails == {<<>>, <<")">>, <<" ", "x", "(">>}

\* ----------------------------------------------------------- state machine
NoResult == [err |-> "", num |-> NoNum, tree |-> NoTree, text |-> <<>>, eq |-> ""]

Idle ==
    /\ tokens = <<>>
    /\ mapping = NoBinding
    /\ variable = ""
    /\ result = NoResult

\* an expression built with the constructors
InitTree ==
    /\ pc = "tree"
    /\ \E k \in 0..MaxOps : IsTree(expr, Leaves, k)
    /\ src = <<>> /\ origin = NoTree /\ other = NoTree
    /\ Idle

\* two expressions built with the constructors
InitPair ==
    /\ pc = "pair"
    /\ \E i \in 0..MaxPairOps : \E j \in 0..(MaxPairOps - i) :
        IsTree(expr, Leaves, i) /\ IsTree(other, Leaves, j)
    /\ src = <<>> /\ origin = NoTree
    /\ Idle

\* an arbitrary input string
InitText ==
    /\ pc = "source"
    /\ src \in Strings
    /\ origin = NoTree /\ expr = NoTree /\ other = NoTree
    /\ Idle

\* the source text of an expression, possibly followed by more characters
InitSource ==
    /\ pc = "source"
    /\ \E k \in 0..MaxOps : IsTree(origin, SourceLeaves, k)
    /\ \E trail \in Trails : src = Render(origin) \o trail
    /\ expr = NoTree /\ other = NoTree
    /\ Idle

\* expr.evaluate(m)
Evaluate ==
    /\ pc = "tree"
    /\ \E m \in Bindings :
        LET v == evaluate(expr, m) IN
        /\ mapping' = m
        /\ result' = [NoResult EXCEPT !.err = v.err, !.num = v.num]
    /\ pc' = "evaluated"
    /\ UNCHANGED <<src, tokens, origin, expr, other, variable>>

\* expr.deriv(v)
Deriv ==
    /\ pc = "tree"
    /\ \E v \in Names :
        /\ variable' = v
        /\ result' = [NoResult EXCEPT !.tree = deriv(expr, v)]
    /\ pc' = "derived"
    /\ UNCHANGED <<src, tokens, origin, expr, other, mapping>>

\* expr = expr.simplify(), once and once more
Simplify ==
    /\ pc \in {"tree", "simplified"}
    /\ LET s == simplify(expr) IN
        /\ result' = [NoResult EXCEPT !.err = s.err, !.tree = s.tree]
        /\ expr' = IF s.err = "" THEN s.tree ELSE expr
        /\ pc' = IF s.err /= "" THEN "failed"
                 ELSE IF pc = "tree" THEN "simplified" ELSE "resimplified"
    /\ UNCHANGED <<src, tokens, origin, other, mapping, variable>>

\* expr = expr OP other and other = other OP expr, by the operator overloads
Compose ==
    /\ pc = "pair"
    /\ \E Op \in OpTags :
        /\ expr' = ExprOp(Op, expr, other)
        /\ other' = ExprOp(Op, other, expr)
    /\ pc' = "composed"
    /\ UNCHANGED <<src, tokens, origin, mapping, variable, result>>

\* expr == other
Equals ==
    /\ pc \in {"pair", "composed"}
    /\ LET r == Eq(expr, other) IN
        result' = [NoResult EXCEPT !.err = IF r = "AttributeError" THEN r ELSE "",
                                   !.eq = IF r = "AttributeError" THEN "" ELSE r]
    /\ pc' = "compared"
    /\ UNCHANGED <<src, tokens, origin, expr, other, mapping, variable>>

\* make_expression, first step: tokens = tokenize(expression)
Tokenize ==
    /\ pc = "source"
    /\ tokens' = tokenize(src)
    /\ pc' = "tokens"
    /\ UNCHANGED <<src, origin, expr, other, mapping, variable, result>>

\* make_expression, second step: expression = parse(tokens)
Parse ==
    /\ pc = "tokens"
    /\ LET p == parse(tokens) IN
        /\ result' = [NoResult EXCEPT !.err = p.err, !.tree = p.tree]
        /\ expr' = p.tree
        /\ pc' = IF p.err = "" THEN "parsed" ELSE "failed"
    /\ UNCHANGED <<src, tokens, origin, other, mapping, variable>>

\* str(expr) of the parsed expression
Stringify ==
    /\ pc = "parsed"
    /\ result' = [NoResult EXCEPT !.tree = expr, !.text = Str(expr)]
    /\ pc' = "printed"
    /\ UNCHANGED <<src, tokens, origin, expr, other, mapping, variable>>

NextTree == Evaluate \/ Deriv \/ Simplify
NextPair == Compose \/ Equals
NextText == Tokenize \/ Parse \/ Stringify

\* operations on an expression built with the constructors
SpecTree == InitTree /\ [][NextTree]_vars
\* comparisons of two expressions
SpecPair == InitPair /\ [][NextPair]_vars
\* make_expression on arbitrary text
SpecText == InitText /\ [][NextText]_vars
\* make_expression on the source text of an expression, then str
SpecSource == InitSource /\ [][NextText]_vars

\* =================================================================== claims
\* helpers of the statements
RECURSIVE VarsOf(_)
VarsOf(e) ==
    IF e.tag = "Var" THEN {e.name}
    ELSE IF IsBinOp(e) THEN VarsOf(Left(e)) \cup VarsOf(Right(e))
    ELSE {}

RECURSIVE TagsOf(_)
TagsOf(e) == IF IsBinOp(e) THEN {e.tag} \cup TagsOf(Left(e)) \cup TagsOf(Right(e)) ELSE {e.tag}

HasUnbound(e, m) == VarsOf(e) \ DOMAIN m /= {}

\* C3 as stated: evaluate fails with SymbolicEvaluationError, and with no
\* other error, exactly when some Variable of the expression is missing from
\* the binding
C3_UnboundAlwaysSymbolicError ==
    pc = "evaluated" =>
        IF HasUnbound(expr, mapping)
        THEN result.err = "SymbolicEvaluationError"
        ELSE result.err /= "SymbolicEvaluationError"

RECURSIVE Subtrees(_)
Subtrees(e) == IF IsBinOp(e) THEN {e} \cup Subtrees(Left(e)) \cup Subtrees(Right(e)) ELSE {e}

\* a Div node of e whose operands both evaluate, the right one to zero
DividesByZero(e, m) ==
    \E d \in Subtrees(e) :
        /\ d.tag = "Div"
        /\ evaluate(d.kids[1], m).err = ""
        /\ evaluate(d.kids[2], m).err = ""
        /\ evaluate(d.kids[2], m).num.num = 0

\* C3 amended: with a Variable missing from the binding evaluate returns no
\* number; it fails with SymbolicEvaluationError, or, only when a Div node
\* of the expression divides by zero, with ZeroDivisionError; with every
\* Variable bound it never fails with SymbolicEvaluationError
C3_UnboundFails ==
    pc = "evaluated" =>
        IF HasUnbound(expr, mapping)
        THEN /\ result.err \in {"SymbolicEvaluationError", "ZeroDivisionError"}
             /\ result.err = "ZeroDivisionError" => DividesByZero(expr, mapping)
        ELSE result.err /= "SymbolicEvaluationError"

C3_Witness ==
    /\ pc = "evaluated"
    /\ IsBinOp(expr)
    /\ DOMAIN mapping = {"x"}
    /\ Right(expr) = Var("y")
    /\ IsBinOp(Left(expr))
    /\ result.err = "SymbolicEvaluationError"

\* the derivative the rules of C9 prescribe, written with the node records
RECURSIVE DerivRule(_, _)
DerivRule(e, v) ==
    LET l == Left(e)
        r == Right(e)
        node(Op, a, b) == [tag |-> Op, name |-> "", n |-> NoNum, kids |-> <<a, b>>]
        one == [tag |-> "Num", name |-> "", n |-> [num |-> 1, den |-> 1, fl |-> FALSE], kids |-> <<>>]
        zero == [tag |-> "Num", name |-> "", n |-> [num |-> 0, den |-> 1, fl |-> FALSE], kids |-> <<>>]
    IN  CASE e.tag = "Var" -> IF e.name = v THEN one ELSE zero
          [] e.tag = "Num" -> zero
          [] e.tag = "Add" -> node("Add", DerivRule(l, v), DerivRule(r, v))
          [] e.tag = "Sub" -> node("Sub", DerivRule(l, v), DerivRule(r, v))
          [] e.tag = "Mul" -> node("Add", node("Mul", l, DerivRule(r, v)),
                                          node("Mul", r, DerivRule(l, v)))
          [] e.tag = "Div" -> node("Div", node("Sub", node("Mul", r, DerivRule(l, v)),
                                                      node("Mul", l, DerivRule(r, v))),
                                          node("Mul", r, r))

\* C9: deriv returns exactly the tree the differentiation rules prescribe,
\* nothing folded or rewritten, and leaves the expression it was called on
\* unchanged
C9_DerivBuildsRuleTree ==
    [][pc' = "derived" => /\ result'.tree = DerivRule(expr, variable')
                          /\ expr' = expr]_vars

C9_Witness ==
    /\ pc = "derived"
    /\ expr.tag = "Div"
    /\ Left(expr).tag = "Mul"
    /\ variable \in VarsOf(expr)
    /\ result.tree.tag = "Div"

\* C6: simplifying a simplified expression succeeds and gives an expression
\* that prints the same
C6_SimplifyIdempotent ==
    [][pc = "simplified" => /\ pc' = "resimplified"
                            /\ Str(expr') = Str(expr)]_vars

C6_Witness ==
    /\ pc = "resimplified"
    /\ IsBinOp(expr)
    /\ \E i \in 1..2 : expr.kids[i].tag = "Num"

\* C10: where evaluate succeeds on an expression, simplify succeeds on it
\* and the simplified expression evaluates to the same number
C10_SimplifyPreservesValue ==
    [][pc = "tree" /\ pc' \in {"simplified", "failed"} =>
        \A m \in Bindings :
            LET before == evaluate(expr, m) IN
            before.err = "" =>
                /\ pc' = "simplified"
                /\ LET after == evaluate(expr', m) IN
                   after.err = "" /\ NumEq(after.num, before.num)]_vars

C10_Witness ==
    /\ pc = "simplified"
    /\ expr.tag = "Div"
    /\ VarsOf(expr) = {"x", "y"}
    /\ \E m \in Bindings : evaluate(expr, m).err = ""

\* the tokens of the fully parenthesized rendering of an expression: every
\* BinOp is "(" left OP right ")", every leaf one token
RECURSIVE TokensOf(_)
TokensOf(e) ==
    IF e.tag = "Var" THEN <<<<e.name>>>>
    ELSE IF e.tag = "Num" THEN <<NumStr(e.n)>>
    ELSE <<<<"(">>>> \o TokensOf(Left(e)) \o <<<<op_syms(e.tag)>>>> \o TokensOf(Right(e))
         \o <<<<")">>>>

IsPrefix(p, q) == Len(p) <= Len(q) /\ SubSeq(q, 1, Len(p)) = p

\* same operator tags, same shape, same leaves in the same order
RECURSIVE SameTree(_, _)
SameTree(a, b) ==
    /\ a.tag = b.tag
    /\ CASE a.tag = "Var" -> a.name = b.name
         [] a.tag = "Num" -> a.n.num = b.n.num /\ a.n.den = b.n.den
         [] a.tag \in {"Add", "Sub", "Mul", "Div"} ->
                SameTree(a.kids[1], b.kids[1]) /\ SameTree(a.kids[2], b.kids[2])
         [] OTHER -> FALSE

\* C1: the tokens of the source text begin with the tokens of the
\* fully parenthesized rendering of the expression, and parse returns that
\* expression whatever tokens follow
C1_ParseRebuildsExpression ==
    pc \in {"parsed", "failed"} =>
        /\ IsPrefix(TokensOf(origin), tokens)
        /\ pc = "parsed"
        /\ result.err = ""
        /\ SameTree(expr, origin)

C1_Witness ==
    /\ pc = "parsed"
    /\ IsBinOp(origin)
    /\ IsBinOp(Right(origin))
    /\ "Num" \in TagsOf(origin)
    /\ Len(tokens) > Len(TokensOf(origin))
    /\ SameTree(expr, origin)

\* the closing parenthesis of the "(" at index is expected and not found:
\* "(" expr OP expr has been consumed there, or inside its left or right
\* operand, and the token at the cursor is not ")" or there is none
RECURSIVE MissingClose(_, _)
MissingClose(toks, index) ==
    /\ index < Len(toks)
    /\ toks[index + 1] = <<"(">>
    /\ LET l == recursive_parse(toks, index + 1) IN
       IF l.err /= "" THEN MissingClose(toks, index + 1)
       ELSE /\ l.index < Len(toks)
            /\ LET r == recursive_parse(toks, l.index + 1) IN
               IF r.err /= "" THEN MissingClose(toks, l.index + 1)
               ELSE r.index >= Len(toks) \/ toks[r.index + 1] /= <<")">>

\* C2 as stated: parse ends with ValueError whenever a closing parenthesis
\* is expected and not found
C2_MissingCloseIsValueError ==
    pc \in {"parsed", "failed"} /\ MissingClose(tokens, 0) =>
        pc = "failed" /\ result.err = "ValueError"

RECURSIVE Concat(_)
Concat(toks) == IF toks = <<>> THEN <<>> ELSE Head(toks) \o Concat(Tail(toks))

\* C8: no token is empty, and the tokens joined in order are the input
\* string without its spaces
C8_TokensAreTheInputWithoutSpaces ==
    pc = "tokens" =>
        /\ \A i \in 1..Len(tokens) : tokens[i] /= <<>>
        /\ Concat(tokens) = SelectSeq(src, LAMBDA c : c /= " ")

C8_Witness ==
    /\ pc = "tokens"
    /\ \E i \in 1..Len(src) : src[i] = " "
    /\ \E i \in 1..Len(tokens) : Len(tokens[i]) >= 2 /\ tokens[i][1] = "-"
    /\ Len(tokens) >= 3

\* ---- reading a printed expression back with the usual conventions: * and /
\* bind tighter than + and -, equal precedence associates to the left,
\* parentheses group; a "-" where an operand is due belongs to the number
ReadFail == [ok |-> FALSE, tree |-> NoTree, index |-> 0]

RECURSIVE ReadSum(_, _)
RECURSIVE ReadSumRest(_, _, _)
RECURSIVE ReadProduct(_, _)
RECURSIVE ReadProductRest(_, _, _)
RECURSIVE ReadOperand(_, _)

ReadOperand(toks, i) ==
    IF i >= Len(toks) THEN ReadFail
    ELSE LET tok == toks[i + 1] IN
         IF tok = <<"(">> THEN
             LET inner == ReadSum(toks, i + 1) IN
             IF inner.ok /\ inner.index < Len(toks) /\ toks[inner.index + 1] = <<")">>
             THEN [inner EXCEPT !.index = @ + 1]
             ELSE ReadFail
         ELSE IF Len(tok) = 1 /\ tok[1] \in Letters THEN
             [ok |-> TRUE,
              tree |-> [tag |-> "Var", name |-> tok[1], n |-> NoNum, kids |-> <<>>],
              index |-> i + 1]
         ELSE LET f == float(tok) IN
              IF f.err /= "" THEN ReadFail
              ELSE [ok |-> TRUE,
                    tree |-> [tag |-> "Num", name |-> "", n |-> f.num, kids |-> <<>>],
                    index |-> i + 1]

ReadProductRest(toks, left, i) ==
    IF i < Len(toks) /\ toks[i + 1] \in {<<"*">>, <<"/">>} THEN
        LET right == ReadOperand(toks, i + 1) IN
        IF ~right.ok THEN ReadFail
        ELSE ReadProductRest(toks,
                 [tag |-> IF toks[i + 1] = <<"*">> THEN "Mul" ELSE "Div", name |-> "",
                  n |-> NoNum, kids |-> <<left, right.tree>>],
                 right.index)
    ELSE [ok |-> TRUE, tree |-> left, index |-> i]

ReadProduct(toks, i) ==
    LET first == ReadOperand(toks, i) IN
    IF ~first.ok THEN ReadFail ELSE ReadProductRest(toks, first.tree, first.index)

ReadSumRest(toks, left, i) ==
    IF i < Len(toks) /\ toks[i + 1] \in {<<"+">>, <<"-">>} THEN
        LET right == ReadProduct(toks, i + 1) IN
        IF ~right.ok THEN ReadFail
        ELSE ReadSumRest(toks,
                 [tag |-> IF toks[i + 1] = <<"+">> THEN "Add" ELSE "Sub", name |-> "",
                  n |-> NoNum, kids |-> <<left, right.tree>>],
                 right.index)
    ELSE [ok |-> TRUE, tree |-> left, index |-> i]

ReadSum(toks, i) ==
    LET first == ReadProduct(toks, i) IN
    IF ~first.ok THEN ReadFail ELSE ReadSumRest(toks, first.tree, first.index)

\* the expression a printed text denotes, NoTree when it denotes none
ReadBack(text) ==
    LET toks == tokenize(text)
        r == ReadSum(toks, 0)
    IN  IF r.ok /\ r.index = Len(toks) THEN r.tree ELSE NoTree

\* the structural equality of the data model: Variables by name, Numbers by
\* value, Add and Mul by their children as an unordered pair, Sub and Div by
\* their children in order, different variants never equal
RECURSIVE StructEq(_, _)
StructEq(a, b) ==
    /\ a.tag = b.tag
    /\ CASE a.tag = "Var" -> a.name = b.name
         [] a.tag = "Num" -> a.n.num = b.n.num /\ a.n.den = b.n.den
         [] a.tag \in {"Add", "Mul"} ->
                \/ StructEq(a.kids[1], b.kids[1]) /\ StructEq(a.kids[2], b.kids[2])
                \/ StructEq(a.kids[1], b.kids[2]) /\ StructEq(a.kids[2], b.kids[1])
         [] a.tag \in {"Sub", "Div"} ->
                StructEq(a.kids[1], b.kids[1]) /\ StructEq(a.kids[2], b.kids[2])
         [] OTHER -> FALSE

\* C7 as stated: the printed text of a parsed well-formed source, read back,
\* is structurally equal to the parsed expression
C7_PrintedTextReadsBackEqual ==
    pc = "printed" /\ src = Render(origin) => StructEq(ReadBack(result.text), expr)

\* some Add or Mul node has a right operand of its own precedence: an Add
\* over an Add or Sub, a Mul over a Mul or Div
RECURSIVE RightNested(_)
RightNested(e) ==
    /\ IsBinOp(e)
    /\ \/ e.tag = "Add" /\ e.kids[2].tag \in {"Add", "Sub"}
       \/ e.tag = "Mul" /\ e.kids[2].tag \in {"Mul", "Div"}
       \/ RightNested(e.kids[1])
       \/ RightNested(e.kids[2])

SameOutcome(v, w) == v.err = w.err /\ (v.err = "" => NumEq(v.num, w.num))

\* C7 amended: the printed text reads back as an expression that evaluates
\* like the parsed one under every binding, and that is structurally equal
\* to it when no Add or Mul node has a right operand of its own precedence
C7_PrintedTextReadsBackEquivalent ==
    pc = "printed" /\ src = Render(origin) =>
        LET back == ReadBack(result.text) IN
        /\ back /= NoTree
        /\ ~RightNested(expr) => StructEq(back, expr)
        /\ \A m \in Bindings : SameOutcome(evaluate(back, m), evaluate(expr, m))

C7_Witness ==
    /\ pc = "printed"
    /\ src = Render(origin)
    /\ expr.tag = "Sub"
    /\ Right(expr).tag = "Sub"
    /\ "Num" \in TagsOf(expr)
    /\ \E i \in 1..Len(result.text) : result.text[i] = "("
    /\ StructEq(ReadBack(result.text), expr)

Variant(e) == IF IsBinOp(e) THEN "BinaryOp" ELSE e.tag

\* C5 as stated: a comparison never raises, and two expressions of
\* different variants compare unequal
C5_EqualityIsTotal ==
    pc = "compared" =>
        /\ result.err = ""
        /\ Variant(expr) /= Variant(other) => result.eq = "False"

\* C4 as stated: Add(a, b) == Add(b, a) and Mul(a, b) == Mul(b, a) return
\* True; Sub(a, b) == Sub(b, a) and Div(a, b) == Div(b, a) return a value,
\* and True only when a equals b
C4_CommutativeEquality ==
    pc = "compared" /\ IsBinOp(expr) /\ other = BinOp(Right(expr), Left(expr), expr.tag) =>
        /\ result.err = ""
        /\ expr.tag \in {"Add", "Mul"} => result.eq = "True"
        /\ expr.tag \in {"Sub", "Div"} =>
               (result.eq = "True" => StructEq(Left(expr), Right(expr)))

====
